---- MODULE Spec2Model ----
(***************************************************************************)
(* Model of MEGA_SD_OLED_FileBrowser_LoadBar.ino: a three-button SD-card   *)
(* file browser on a 128x64 OLED.                                          *)
(*                                                                         *)
(* Strings are sequences of one-character strings, so that strncpy and     *)
(* snprintf truncation, strrchr and strcmp are computed, not assumed.      *)
(* The entry table is the full MAX_ENTRIES-slot array, indexed from 0 as   *)
(* in the source; slots at or beyond entryCount keep whatever an earlier   *)
(* load wrote there.                                                       *)
(*                                                                         *)
(* Spec          the browser: setup(), then the three handlers dispatched  *)
(*               by loop(); buttonPressed is abstracted to its result.     *)
(* SpecDebounce  loop() with buttonPressed in full: pin levels driven by   *)
(*               the environment, a millisecond clock, the release-wait    *)
(*               and the overlay delays.                                   *)
(* SpecSplash    setup() step by step: one action per iteration of the     *)
(*               splash loop, then the verification after the budget.      *)
(* SpecSplashFair  SpecSplash with weak fairness of its steps (the         *)
(*               processor keeps executing setup()).                       *)
(* SpecPath      pathJoin and goParent applied to paths and names drawn    *)
(*               from bounded sets.                                        *)
(***************************************************************************)
EXTENDS Integers, Sequences, FiniteSets, TLC

\* ---------------------------------------------------------------- constants
BTN_SCROLL == 2
BTN_ENTER == 3
BTN_BACK == 4
DEBOUNCE_MS == 120
VISIBLE_ITEMS == 5
MAX_ENTRIES == 50
SHOW_ONLY_STL == FALSE
NAME_SIZE == 32
PATH_SIZE == 80
FAIL_DWELL_MS == 800
FILE_DWELL_MS == 2000
TOTAL_MS == 5000
STEP_MS == 50
barW == 112

HIGH == TRUE
LOW == FALSE

Buttons == {BTN_SCROLL, BTN_ENTER, BTN_BACK}

\* ------------------------------------------------------------------- bounds
\* Children of the big directory beyond the capacity of the entry table.
ExtraChildren == 2
\* Scroll presses followed within one loaded directory.
MaxScrolls == 52
\* Clock granularity and horizon of SpecDebounce (milliseconds).
TickMs == 200
Horizon == 1200
\* Presses (pins going LOW) the environment makes in SpecDebounce.
MaxPresses == 2

\* SpecSplash: what one iteration of the splash loop can take beyond
\* delay(STEP_MS) (a slow SD.begin, the root scan, the drawing), and a cap on
\* the frames followed.
SlowMs == 950
FrameCap == 101
\* SpecPath: segments of the paths drawn.
MaxDepth == 3

MaxClock == TOTAL_MS + Horizon

\* ------------------------------------------------------------------ strings
Min(a, b) == IF a < b THEN a ELSE b

Rep(c, n) == [i \in 1..n |-> c]

\* strncpy(dst, src, n); dst[n] = '\0'  and  snprintf(dst, n + 1, ...)
Trunc(s, n) == SubSeq(s, 1, Min(Len(s), n))

Root == <<"/">>

Lower(c) == IF c = "S" THEN "s" ELSE IF c = "T" THEN "t" ELSE IF c = "L" THEN "l" ELSE c

endsWithSTL(s) ==
  LET len == Len(s) IN
  IF len < 4 THEN FALSE
  ELSE /\ s[len - 3] = "."
       /\ Lower(s[len - 2]) = "s"
       /\ Lower(s[len - 1]) = "t"
       /\ Lower(s[len]) = "l"

pathJoin(base, child) ==
  IF base = Root THEN Trunc(<<"/">> \o child, PATH_SIZE - 1)
  ELSE Trunc(base \o <<"/">> \o child, PATH_SIZE - 1)

\* strrchr(path, '/') as a 1-based position, 0 when there is none
LastSlash(path) ==
  LET S == {i \in 1..Len(path) : path[i] = "/"} IN
  IF S = {} THEN 0 ELSE CHOOSE i \in S : \A j \in S : j <= i

\* goParent cutting after the last slash instead of at it
goParent_keepSlash(path) ==
  IF path = Root THEN path
  ELSE LET len == Len(path)
           p1 == IF len > 1 /\ path[len] = "/" THEN SubSeq(path, 1, len - 1) ELSE path
           last == LastSlash(p1)
       IN IF last = 0 THEN Root
          ELSE SubSeq(p1, 1, last)

\* goParent without the slash == path case of line 216: a one-segment path
\* is cut to the empty string
goParent_noRootCase(path) ==
  IF path = Root THEN path
  ELSE LET len == Len(path)
           p1 == IF len > 1 /\ path[len] = "/" THEN SubSeq(path, 1, len - 1) ELSE path
           last == LastSlash(p1)
       IN IF last = 0 THEN Root
          ELSE SubSeq(p1, 1, last - 1)

goParent(path) ==
  IF path = Root THEN path
  ELSE LET len == Len(path)
           p1 == IF len > 1 /\ path[len] = "/" THEN SubSeq(path, 1, len - 1) ELSE path
           last == LastSlash(p1)
       IN IF last = 0 THEN Root
          ELSE IF last = 1 THEN SubSeq(p1, 1, 1)
          ELSE SubSeq(p1, 1, last - 1)

\* ------------------------------------------------------------------ storage
\* The card: what SD.open(path) and dir.openNextFile() yield.
Digits == <<"0", "1", "2", "3", "4", "5", "6", "7", "8", "9">>

RECURSIVE Num(_)
Num(i) == IF i < 10 THEN <<Digits[i + 1]>> ELSE Num(i \div 10) \o <<Digits[(i % 10) + 1]>>

DirEnt(nm) == [name |-> nm, isDir |-> TRUE]
FileEnt(nm) == [name |-> nm, isDir |-> FALSE]

nA == <<"A">>
nB == <<"b", ".", "t", "x", "t">>
nC == <<"C">>
nE == <<"E">>
nL == Rep("L", NAME_SIZE - 1)
nXL == Rep("X", NAME_SIZE + 1)

pA == <<"/">> \o nA
pC == <<"/">> \o nC
pAE == pA \o <<"/">> \o nE
pAL == pA \o <<"/">> \o nL
pALL == pAL \o <<"/">> \o nL
pAXL == pA \o <<"/">> \o nXL

Card ==
  (Root :> <<DirEnt(nA), FileEnt(nB), DirEnt(nC)>>)
  @@ (pA :> <<DirEnt(nL), DirEnt(nXL), DirEnt(nE), FileEnt(<<"f">> \o Num(0)),
              FileEnt(<<"f">> \o Num(1)), FileEnt(<<"f">> \o Num(2)),
              FileEnt(<<"m", ".", "S", "t", "L">>)>>)
  @@ (pC :> [i \in 1..(MAX_ENTRIES + ExtraChildren) |-> FileEnt(<<"f">> \o Num(i - 1))])
  @@ (pAE :> <<>>)
  @@ (pAL :> <<DirEnt(nL), FileEnt(<<"g">> \o Num(0)), FileEnt(<<"g">> \o Num(1)),
               FileEnt(<<"g">> \o Num(2)), FileEnt(<<"g">> \o Num(3))>>)
  @@ (pALL :> <<DirEnt(nL), FileEnt(<<"h">>)>>)
  @@ (pAXL :> <<FileEnt(<<"x">>)>>)

\* SD.open(path) yields a handle and the handle is a directory
IsDirectory(path) == path \in DOMAIN Card

\* ------------------------------------------------------------ DirectoryModel
EntryIdx == 0..(MAX_ENTRIES - 1)

NoEntries == [i \in EntryIdx |-> [name |-> <<>>, isDir |-> FALSE]]

\* clampScroll without lines 111-113: the window does not follow the selection
clampScroll_noFollow(count, sel, off) ==
  IF count <= 0 THEN [selectionIndex |-> 0, scrollOffset |-> 0]
  ELSE LET s1 == IF sel < 0 THEN 0 ELSE sel
           s2 == IF s1 > count - 1 THEN count - 1 ELSE s1
           o1 == IF s2 < off THEN s2 ELSE off
           o3 == IF o1 < 0 THEN 0 ELSE o1
           m1 == count - VISIBLE_ITEMS
           maxOffset == IF m1 < 0 THEN 0 ELSE m1
           o4 == IF o3 > maxOffset THEN maxOffset ELSE o3
       IN [selectionIndex |-> s2, scrollOffset |-> o4]

\* clampScroll without line 118: maxOffset is not raised to 0
clampScroll_noFloor(count, sel, off) ==
  IF count <= 0 THEN [selectionIndex |-> 0, scrollOffset |-> 0]
  ELSE LET s1 == IF sel < 0 THEN 0 ELSE sel
           s2 == IF s1 > count - 1 THEN count - 1 ELSE s1
           o1 == IF s2 < off THEN s2 ELSE off
           o2 == IF s2 >= o1 + VISIBLE_ITEMS THEN s2 - (VISIBLE_ITEMS - 1) ELSE o1
           o3 == IF o2 < 0 THEN 0 ELSE o2
           maxOffset == count - VISIBLE_ITEMS
           o4 == IF o3 > maxOffset THEN maxOffset ELSE o3
       IN [selectionIndex |-> s2, scrollOffset |-> o4]

\* clampScroll with line 112 as "scrollOffset = selectionIndex - VISIBLE_ITEMS":
\* the selection lands one row below the window
clampScroll_offByOne(count, sel, off) ==
  IF count <= 0 THEN [selectionIndex |-> 0, scrollOffset |-> 0]
  ELSE LET s1 == IF sel < 0 THEN 0 ELSE sel
           s2 == IF s1 > count - 1 THEN count - 1 ELSE s1
           o1 == IF s2 < off THEN s2 ELSE off
           o2 == IF s2 >= o1 + VISIBLE_ITEMS THEN s2 - VISIBLE_ITEMS ELSE o1
           o3 == IF o2 < 0 THEN 0 ELSE o2
           m1 == count - VISIBLE_ITEMS
           maxOffset == IF m1 < 0 THEN 0 ELSE m1
           o4 == IF o3 > maxOffset THEN maxOffset ELSE o3
       IN [selectionIndex |-> s2, scrollOffset |-> o4]

clampScroll(count, sel, off) ==
  IF count <= 0 THEN [selectionIndex |-> 0, scrollOffset |-> 0]
  ELSE LET s1 == IF sel < 0 THEN 0 ELSE sel
           s2 == IF s1 > count - 1 THEN count - 1 ELSE s1
           o1 == IF s2 < off THEN s2 ELSE off
           o2 == IF s2 >= o1 + VISIBLE_ITEMS THEN s2 - (VISIBLE_ITEMS - 1) ELSE o1
           o3 == IF o2 < 0 THEN 0 ELSE o2
           m1 == count - VISIBLE_ITEMS
           maxOffset == IF m1 < 0 THEN 0 ELSE m1
           o4 == IF o3 > maxOffset THEN maxOffset ELSE o3
       IN [selectionIndex |-> s2, scrollOffset |-> o4]

\* the while loop of loadDirectory with the bound entryCount < MAX_ENTRIES - 1:
\* the table's last slot is never filled
RECURSIVE ReadDir_shortCap(_, _, _, _)
ReadDir_shortCap(children, i, ents, count) ==
  IF i > Len(children) \/ ~(count < MAX_ENTRIES - 1) THEN [entries |-> ents, entryCount |-> count]
  ELSE LET nm == children[i].name
           isDir == children[i].isDir
           keep == IF ~isDir /\ SHOW_ONLY_STL THEN endsWithSTL(nm) ELSE TRUE
       IN IF keep
          THEN ReadDir_shortCap(children, i + 1,
                       [ents EXCEPT ![count] = [name |-> Trunc(nm, NAME_SIZE - 1), isDir |-> isDir]],
                       count + 1)
          ELSE ReadDir_shortCap(children, i + 1, ents, count)

\* the while loop of loadDirectory: children[i] is the handle f
RECURSIVE ReadDir(_, _, _, _)
ReadDir(children, i, ents, count) ==
  IF i > Len(children) \/ ~(count < MAX_ENTRIES) THEN [entries |-> ents, entryCount |-> count]
  ELSE LET nm == children[i].name
           isDir == children[i].isDir
           keep == IF ~isDir /\ SHOW_ONLY_STL THEN endsWithSTL(nm) ELSE TRUE
       IN IF keep
          THEN ReadDir(children, i + 1,
                       [ents EXCEPT ![count] = [name |-> Trunc(nm, NAME_SIZE - 1), isDir |-> isDir]],
                       count + 1)
          ELSE ReadDir(children, i + 1, ents, count)

\* loadDirectory(path) run on the entry table ents; opens says whether
\* SD.open returned a handle.
loadDirectory(ents, path, opens) ==
  IF ~(opens /\ IsDirectory(path))
  THEN [ok |-> FALSE, entries |-> ents, entryCount |-> 0, selectionIndex |-> 0, scrollOffset |-> 0]
  ELSE LET r == ReadDir(Card[path], 1, ents, 0)
           c == clampScroll(r.entryCount, 0, 0)
       IN [ok |-> TRUE, entries |-> r.entries, entryCount |-> r.entryCount,
           selectionIndex |-> c.selectionIndex, scrollOffset |-> c.scrollOffset]

\* -------------------------------------------------------------------- state
VARIABLES
  currentPath, entries, entryCount, selectionIndex, scrollOffset,  \* globals
  screen,      \* what display.display() last presented
  pc,          \* "setup", "halt", "loop", "wait" (release-wait), "dwell" (delay in a handler)
  wake,        \* clock value at which the pending delay() of a handler ends
  pin,         \* the button loop() polls next
  level,       \* environment: the level of each input pin
  lastState, lastTime,  \* last*State, last*Time of each button
  clock,       \* millis()
  lastOp,      \* history: what the last handler did
  loads,       \* history: the loadDirectory calls of the last handler, <<path, result>>
  pre,         \* history: the globals when the last handler was entered
  scrolls,     \* history: Scroll actions since the last loadDirectory
  runStart, runLen,  \* history: selectionIndex before, and length of, the current run of Scroll actions
  lowSince,    \* history: clock value at which each pin went LOW, 0 while it is HIGH
  emitted,     \* history: presses reported for each button since its pin last went LOW
  presses,     \* history: how often a pin went LOW
  start, sdOk, scanned,  \* locals of splashWithLoadingBar
  fillW, status,  \* the bar's fill width and the status text of the last splash frame
  frames,      \* history: frames the splash loop has rendered
  tried,       \* history: the last step of setup() called SD.begin
  pathSegs, nameIn,  \* SpecPath: the segments of the path drawn, the child name drawn
  pathOut,     \* SpecPath: the result of the functions applied so far
  pathOp       \* SpecPath: which functions have been applied

model == <<currentPath, entries, entryCount, selectionIndex, scrollOffset>>
buttons == <<level, lastState, lastTime, clock, lowSince, emitted, presses>>
history == <<lastOp, loads, pre, scrolls, runStart, runLen>>
vars == <<currentPath, entries, entryCount, selectionIndex, scrollOffset, screen, pc, wake,
          pin, level, lastState, lastTime, clock, lastOp, loads, pre, scrolls, runStart,
          runLen, lowSince, emitted, presses, start, sdOk, scanned, fillW, status, frames,
          tried, pathSegs, nameIn, pathOut, pathOp>>
splash == <<start, sdOk, scanned, fillW, status, frames, tried>>
paths == <<pathSegs, nameIn, pathOut, pathOp>>

Snapshot == [currentPath |-> currentPath, entries |-> entries, entryCount |-> entryCount,
             selectionIndex |-> selectionIndex, scrollOffset |-> scrollOffset]

\* drawUI(): header and the visible rows
ListScreen(path, ents, count, sel, off) ==
  [kind |-> "list", text |-> path,
   rows |-> [r \in 1..Min(VISIBLE_ITEMS, IF count - off < 0 THEN 0 ELSE count - off)
               |-> ents[off + r - 1].name],
   selected |-> sel]

Overlay(kind, text) == [kind |-> kind, text |-> text, rows |-> <<>>, selected |-> 0]

SetModel(r) ==
  /\ entries' = r.entries
  /\ entryCount' = r.entryCount
  /\ selectionIndex' = r.selectionIndex
  /\ scrollOffset' = r.scrollOffset

\* the globals' initialisers; the locals of the splash before it runs
Boot ==
  /\ currentPath = Root
  /\ entries = NoEntries
  /\ entryCount = 0
  /\ selectionIndex = 0
  /\ scrollOffset = 0
  /\ screen = Overlay("blank", <<>>)
  /\ pc = "setup"
  /\ wake = 0
  /\ pin = BTN_SCROLL
  /\ level = [b \in Buttons |-> HIGH]
  /\ lastState = [b \in Buttons |-> HIGH]
  /\ lastTime = [b \in Buttons |-> 0]
  /\ clock = 0
  /\ lastOp = "none"
  /\ loads = <<>>
  /\ pre = Snapshot
  /\ scrolls = 0
  /\ runStart = 0
  /\ runLen = 0
  /\ lowSince = [b \in Buttons |-> 0]
  /\ emitted = [b \in Buttons |-> 0]
  /\ presses = 0
  /\ start = 0
  /\ sdOk = FALSE
  /\ scanned = FALSE
  /\ fillW = 0
  /\ status = ""
  /\ frames = 0
  /\ tried = FALSE

Init ==
  /\ Boot
  /\ pathSegs = <<>>
  /\ nameIn = <<>>
  /\ pathOut = Root
  /\ pathOp = "none"

\* ---------------------------------------------------------------- handlers
\* A handler is entered from loop(); the caller states where loop() was.
\* Handlers that do not call delay() return at once (pc' = "loop"); the two
\* overlays leave the program inside delay() (pc' = "dwell") until Dismiss.

\* selectionIndex++; if (selectionIndex >= entryCount) selectionIndex = 0;
\* onScroll without line 228: no wrap, clampScroll then holds the last index
advance_noWrap(sel, count) == sel + 1

advance(sel, count) == IF sel + 1 >= count THEN 0 ELSE sel + 1

onScroll ==
  /\ pre' = Snapshot
  /\ loads' = <<>>
  /\ lastOp' = "scroll"
  /\ pc' = "loop"
  /\ wake' = 0
  /\ IF entryCount <= 0
     THEN UNCHANGED <<model, screen, scrolls, runStart, runLen>>
     ELSE /\ scrolls < MaxScrolls
          /\ LET c == clampScroll(entryCount, advance(selectionIndex, entryCount), scrollOffset)
             IN /\ selectionIndex' = c.selectionIndex
                /\ scrollOffset' = c.scrollOffset
                /\ screen' = ListScreen(currentPath, entries, entryCount,
                                        c.selectionIndex, c.scrollOffset)
          /\ UNCHANGED <<currentPath, entries, entryCount>>
          /\ scrolls' = scrolls + 1
          /\ runLen' = runLen + 1
          /\ runStart' = IF runLen = 0 THEN selectionIndex ELSE runStart

\* The name printed by the "Open folder failed" screen: entries[selectionIndex].name,
\* read after loadDirectory has run.
FailedName(r) == r.entries[r.selectionIndex].name

\* onEnter without the isDir test of line 236: a file entry is opened as a
\* folder
onEnter_noDirTest(opens) ==
  /\ pre' = Snapshot
  /\ runLen' = 0
  /\ runStart' = 0
  /\ IF entryCount <= 0
     THEN /\ UNCHANGED <<model, screen, scrolls>>
          /\ loads' = <<>>
          /\ lastOp' = "enterEmpty"
          /\ pc' = "loop"
          /\ wake' = 0
     ELSE LET newPath == pathJoin(currentPath, entries[selectionIndex].name)
              r == loadDirectory(entries, newPath, opens)
          IN /\ SetModel(r)
             /\ loads' = <<[path |-> newPath, ok |-> r.ok]>>
             /\ scrolls' = 0
             /\ IF r.ok
                THEN /\ currentPath' = Trunc(newPath, PATH_SIZE - 1)
                     /\ screen' = ListScreen(Trunc(newPath, PATH_SIZE - 1), r.entries,
                                             r.entryCount, r.selectionIndex, r.scrollOffset)
                     /\ lastOp' = "enterOk"
                     /\ pc' = "loop"
                     /\ wake' = 0
                ELSE /\ currentPath' = currentPath
                     /\ screen' = Overlay("openFailed", FailedName(r))
                     /\ lastOp' = IF entries[selectionIndex].isDir THEN "enterFail"
                                  ELSE "enterFile"
                     /\ pc' = "dwell"
                     /\ wake' = clock + FAIL_DWELL_MS

\* onEnter that copies newPath into currentPath before it knows the result
\* of loadDirectory (line 240 moved above line 239)
onEnter_commitFirst(opens) ==
  /\ pre' = Snapshot
  /\ runLen' = 0
  /\ runStart' = 0
  /\ IF entryCount <= 0
     THEN /\ UNCHANGED <<model, screen, scrolls>>
          /\ loads' = <<>>
          /\ lastOp' = "enterEmpty"
          /\ pc' = "loop"
          /\ wake' = 0
     ELSE IF entries[selectionIndex].isDir
     THEN LET newPath == pathJoin(currentPath, entries[selectionIndex].name)
              r == loadDirectory(entries, newPath, opens)
          IN /\ SetModel(r)
             /\ loads' = <<[path |-> newPath, ok |-> r.ok]>>
             /\ scrolls' = 0
             /\ currentPath' = Trunc(newPath, PATH_SIZE - 1)
             /\ IF r.ok
                THEN /\ screen' = ListScreen(Trunc(newPath, PATH_SIZE - 1), r.entries,
                                             r.entryCount, r.selectionIndex, r.scrollOffset)
                     /\ lastOp' = "enterOk"
                     /\ pc' = "loop"
                     /\ wake' = 0
                ELSE /\ screen' = Overlay("openFailed", FailedName(r))
                     /\ lastOp' = "enterFail"
                     /\ pc' = "dwell"
                     /\ wake' = clock + FAIL_DWELL_MS
     ELSE /\ UNCHANGED <<model, scrolls>>
          /\ loads' = <<>>
          /\ screen' = Overlay("selectedFile", entries[selectionIndex].name)
          /\ lastOp' = "enterFile"
          /\ pc' = "dwell"
          /\ wake' = clock + FILE_DWELL_MS

onEnter(opens) ==
  /\ pre' = Snapshot
  /\ runLen' = 0
  /\ runStart' = 0
  /\ IF entryCount <= 0
     THEN /\ UNCHANGED <<model, screen, scrolls>>
          /\ loads' = <<>>
          /\ lastOp' = "enterEmpty"
          /\ pc' = "loop"
          /\ wake' = 0
     ELSE IF entries[selectionIndex].isDir
     THEN LET newPath == pathJoin(currentPath, entries[selectionIndex].name)
              r == loadDirectory(entries, newPath, opens)
          IN /\ SetModel(r)
             /\ loads' = <<[path |-> newPath, ok |-> r.ok]>>
             /\ scrolls' = 0
             /\ IF r.ok
                THEN /\ currentPath' = Trunc(newPath, PATH_SIZE - 1)
                     /\ screen' = ListScreen(Trunc(newPath, PATH_SIZE - 1), r.entries,
                                             r.entryCount, r.selectionIndex, r.scrollOffset)
                     /\ lastOp' = "enterOk"
                     /\ pc' = "loop"
                     /\ wake' = 0
                ELSE /\ currentPath' = currentPath
                     /\ screen' = Overlay("openFailed", FailedName(r))
                     /\ lastOp' = "enterFail"
                     /\ pc' = "dwell"
                     /\ wake' = clock + FAIL_DWELL_MS
     ELSE /\ UNCHANGED <<model, scrolls>>
          /\ loads' = <<>>
          /\ screen' = Overlay("selectedFile", entries[selectionIndex].name)
          /\ lastOp' = "enterFile"
          /\ pc' = "dwell"
          /\ wake' = clock + FILE_DWELL_MS

\* onBack whose failure branch is that of onEnter: no fallback to the root
onBack_noFallback(opens, rootOpens) ==
  /\ pre' = Snapshot
  /\ runLen' = 0
  /\ runStart' = 0
  /\ pc' = "loop"
  /\ wake' = 0
  /\ IF currentPath = Root
     THEN /\ UNCHANGED <<model, screen, scrolls>>
          /\ loads' = <<>>
          /\ lastOp' = "backRoot"
     ELSE LET parent == goParent(Trunc(currentPath, PATH_SIZE - 1))
              r == loadDirectory(entries, parent, opens)
          IN /\ scrolls' = 0
             /\ SetModel(r)
             /\ loads' = <<[path |-> parent, ok |-> r.ok]>>
             /\ currentPath' = IF r.ok THEN Trunc(parent, PATH_SIZE - 1) ELSE currentPath
             /\ screen' = ListScreen(currentPath', r.entries, r.entryCount,
                                     r.selectionIndex, r.scrollOffset)
             /\ lastOp' = IF r.ok THEN "backOk" ELSE "backFallback"

\* onBack without the early return of line 273: at the root it loads
\* goParent("/") like anywhere else
onBack_noRootCheck(opens, rootOpens) ==
  /\ pre' = Snapshot
  /\ runLen' = 0
  /\ runStart' = 0
  /\ pc' = "loop"
  /\ wake' = 0
  /\ LET parent == goParent(Trunc(currentPath, PATH_SIZE - 1))
         r == loadDirectory(entries, parent, opens)
         r2 == loadDirectory(r.entries, Root, rootOpens)
     IN /\ scrolls' = 0
        /\ IF r.ok
           THEN /\ currentPath' = Trunc(parent, PATH_SIZE - 1)
                /\ SetModel(r)
                /\ loads' = <<[path |-> parent, ok |-> TRUE]>>
                /\ screen' = ListScreen(Trunc(parent, PATH_SIZE - 1), r.entries,
                                        r.entryCount, r.selectionIndex, r.scrollOffset)
                /\ lastOp' = IF currentPath = Root THEN "backRoot" ELSE "backOk"
           ELSE /\ currentPath' = Root
                /\ SetModel(r2)
                /\ loads' = <<[path |-> parent, ok |-> FALSE], [path |-> Root, ok |-> r2.ok]>>
                /\ screen' = ListScreen(Root, r2.entries, r2.entryCount,
                                        r2.selectionIndex, r2.scrollOffset)
                /\ lastOp' = IF currentPath = Root THEN "backRoot" ELSE "backFallback"

onBack(opens, rootOpens) ==
  /\ pre' = Snapshot
  /\ runLen' = 0
  /\ runStart' = 0
  /\ pc' = "loop"
  /\ wake' = 0
  /\ IF currentPath = Root
     THEN /\ UNCHANGED <<model, screen, scrolls>>
          /\ loads' = <<>>
          /\ lastOp' = "backRoot"
     ELSE LET parent == goParent(Trunc(currentPath, PATH_SIZE - 1))
              r == loadDirectory(entries, parent, opens)
              r2 == loadDirectory(r.entries, Root, rootOpens)
          IN /\ scrolls' = 0
             /\ IF r.ok
                THEN /\ currentPath' = Trunc(parent, PATH_SIZE - 1)
                     /\ SetModel(r)
                     /\ loads' = <<[path |-> parent, ok |-> TRUE]>>
                     /\ screen' = ListScreen(Trunc(parent, PATH_SIZE - 1), r.entries,
                                             r.entryCount, r.selectionIndex, r.scrollOffset)
                     /\ lastOp' = "backOk"
                ELSE /\ currentPath' = Root
                     /\ SetModel(r2)
                     /\ loads' = <<[path |-> parent, ok |-> FALSE], [path |-> Root, ok |-> r2.ok]>>
                     /\ screen' = ListScreen(Root, r2.entries, r2.entryCount,
                                             r2.selectionIndex, r2.scrollOffset)
                     /\ lastOp' = "backFallback"

\* the end of delay() in onEnter, then drawUI()
Redraw ==
  /\ screen' = ListScreen(currentPath, entries, entryCount, selectionIndex, scrollOffset)
  /\ pc' = "loop"
  /\ wake' = 0
  /\ UNCHANGED <<model, history>>

\* ------------------------------------------------------------------ startup
\* setup() as one step.  sdLoop: SD.begin succeeded in some step of the
\* splash loop, so the loop scanned the root once (scanOpens: that scan's
\* SD.open); sdFinal, rootOpens: the verification after the splash budget.
\* millis() is at least TOTAL_MS when setup() returns.
setup ==
  /\ pc = "setup"
  /\ \E dispOk, sdLoop, scanOpens, sdFinal, rootOpens \in BOOLEAN :
       LET s0 == [ok |-> FALSE, entries |-> entries, entryCount |-> entryCount,
                  selectionIndex |-> selectionIndex, scrollOffset |-> scrollOffset]
           s1 == IF sdLoop THEN loadDirectory(entries, Root, scanOpens) ELSE s0
           r == loadDirectory(s1.entries, Root, rootOpens)
           scan == IF sdLoop THEN <<[path |-> Root, ok |-> s1.ok]>> ELSE <<>>
       IN IF ~dispOk
          THEN /\ pc' = "halt"
               /\ UNCHANGED <<model, screen, clock, loads>>
          ELSE /\ clock' = TOTAL_MS
               /\ currentPath' = Root
               /\ IF ~sdFinal
                  THEN /\ SetModel(s1)
                       /\ loads' = scan
                       /\ screen' = Overlay("sdInitFailed", <<>>)
                       /\ pc' = "halt"
                  ELSE /\ SetModel(r)
                       /\ loads' = scan \o <<[path |-> Root, ok |-> r.ok]>>
                       /\ IF r.ok
                          THEN /\ screen' = ListScreen(Root, r.entries, r.entryCount,
                                                       r.selectionIndex, r.scrollOffset)
                               /\ pc' = "loop"
                          ELSE /\ screen' = Overlay("rootOpenFailed", <<>>)
                               /\ pc' = "halt"
  /\ lastOp' = "setup"
  /\ UNCHANGED <<wake, pin, level, lastState, lastTime, lowSince, emitted, presses,
                 pre, scrolls, runStart, runLen, splash, paths>>

\* ------------------------------------------------------------------ browser
\* loop() with buttonPressed abstracted to "this button reported a press".
PressScroll == pc = "loop" /\ onScroll /\ UNCHANGED <<pin, buttons, splash, paths>>

PressEnter ==
  /\ pc = "loop"
  /\ \E opens \in BOOLEAN : onEnter(opens)
  /\ UNCHANGED <<pin, buttons, splash, paths>>

PressBack ==
  /\ pc = "loop"
  /\ \E opens, rootOpens \in BOOLEAN : onBack(opens, rootOpens)
  /\ UNCHANGED <<pin, buttons, splash, paths>>

Dismiss == pc = "dwell" /\ Redraw /\ UNCHANGED <<pin, buttons, splash, paths>>

Next == setup \/ PressScroll \/ PressEnter \/ PressBack \/ Dismiss

Spec == Init /\ [][Next]_vars

\* ---------------------------------------------------------------- debounce
\* loop() polls the pins in the order of lines 403-405.
NextPin(b) == IF b = BTN_BACK THEN BTN_SCROLL ELSE b + 1

Running == pc \in {"loop", "wait", "dwell"}

\* environment: time passes, a button goes down, a button comes up
Tick ==
  /\ Running
  /\ clock + TickMs <= MaxClock
  /\ clock' = clock + TickMs
  /\ UNCHANGED <<model, screen, pc, wake, pin, level, lastState, lastTime, history,
                 lowSince, emitted, presses, splash, paths>>

PinDown(b) ==
  /\ Running
  /\ level[b] = HIGH
  /\ presses < MaxPresses
  /\ presses' = presses + 1
  /\ level' = [level EXCEPT ![b] = LOW]
  /\ lowSince' = [lowSince EXCEPT ![b] = clock]
  /\ emitted' = [emitted EXCEPT ![b] = 0]
  /\ UNCHANGED <<model, screen, pc, wake, pin, lastState, lastTime, history, clock,
                 splash, paths>>

PinUp(b) ==
  /\ Running
  /\ level[b] = LOW
  /\ level' = [level EXCEPT ![b] = HIGH]
  /\ lowSince' = [lowSince EXCEPT ![b] = 0]
  /\ UNCHANGED <<model, screen, pc, wake, pin, lastState, lastTime, history, clock,
                 emitted, presses, splash, paths>>

\* line 89: now == LOW && (millis() - lastTime) > DEBOUNCE_MS
debounced(now, elapsed) == now = LOW /\ elapsed > DEBOUNCE_MS

\* line 90: the release-wait ends when digitalRead(pin) is not LOW
\* buttonPressed without the release-wait
released_noWait(now) == TRUE

released(now) == now # LOW

\* buttonPressed, lines 82-89: sample, record a level change, decide
Poll ==
  /\ pc = "loop"
  /\ LET now == level[pin]
         t == IF now # lastState[pin] THEN clock ELSE lastTime[pin]
     IN /\ lastState' = [lastState EXCEPT ![pin] = now]
        /\ lastTime' = [lastTime EXCEPT ![pin] = t]
        /\ IF debounced(now, clock - t)
           THEN pc' = "wait" /\ pin' = pin
           ELSE pc' = "loop" /\ pin' = NextPin(pin)
  /\ UNCHANGED <<model, screen, wake, level, clock, history, lowSince, emitted, presses,
                 splash, paths>>

\* buttonPressed, lines 90-93, returning true to loop(), which runs the handler
Report ==
  /\ pc = "wait"
  /\ released(level[pin])
  /\ lastState' = [lastState EXCEPT ![pin] = HIGH]
  /\ lastTime' = [lastTime EXCEPT ![pin] = clock]
  /\ emitted' = [emitted EXCEPT ![pin] = @ + 1]
  /\ pin' = NextPin(pin)
  /\ UNCHANGED <<level, clock, lowSince, presses>>

ReportScroll == pin = BTN_SCROLL /\ Report /\ onScroll /\ UNCHANGED <<splash, paths>>

ReportEnter ==
  /\ pin = BTN_ENTER
  /\ Report
  /\ \E opens \in BOOLEAN : onEnter(opens)
  /\ UNCHANGED <<splash, paths>>

ReportBack ==
  /\ pin = BTN_BACK
  /\ Report
  /\ \E opens, rootOpens \in BOOLEAN : onBack(opens, rootOpens)
  /\ UNCHANGED <<splash, paths>>

\* delay(800) or delay(2000) has elapsed
DelayDone ==
  /\ pc = "dwell"
  /\ clock >= wake
  /\ Redraw
  /\ UNCHANGED <<pin, buttons, splash, paths>>

NextDebounce ==
  \/ setup
  \/ Tick
  \/ \E b \in Buttons : PinDown(b)
  \/ \E b \in Buttons : PinUp(b)
  \/ Poll
  \/ ReportScroll
  \/ ReportEnter
  \/ ReportBack
  \/ DelayDone

SpecDebounce == Init /\ [][NextDebounce]_vars

\* ------------------------------------------------------------------ splash
\* setup() step by step.  millis() is read once per iteration: the reads of
\* lines 306 and 307 are taken at the same millisecond.

\* line 312 without its test: SD.begin is called in every iteration
initDue_always(ok) == TRUE

\* line 312: if (!sdOk)
initDue(ok) == ~ok

\* lines 321-325 removed: the loop never scans the root
scanDue_never(ok, done) == FALSE

\* line 321: if (sdOk && !scanned), sdOk being this iteration's value
scanDue(ok, done) == ok /\ ~done

\* lines 341-343
statusText(ok, done) ==
  IF ~ok THEN "Loading SD..." ELSE IF ~done THEN "Scanning..." ELSE "Ready"

\* lines 307-309 and 349-351: p = elapsed / TOTAL_MS capped at 1,
\* fillW = (int)((barW - 2) * p) kept within 0 .. barW - 2.  The float
\* product truncates to the integer quotient for every elapsed in
\* 0 .. TOTAL_MS.
fillWidth(elapsed) ==
  LET e == Min(elapsed, TOTAL_MS)
      w == ((barW - 2) * e) \div TOTAL_MS
  IN IF w < 0 THEN 0 ELSE IF w > barW - 2 THEN barW - 2 ELSE w

\* an iteration without delay(STEP_MS)
stepTime_noDelay(extra) == extra

\* the time one iteration takes: delay(STEP_MS) and whatever the calls took
stepTime(extra) == STEP_MS + extra

\* setup() up to the first test of the splash loop
SplashBegin ==
  /\ pc = "setup"
  /\ \E dispOk \in BOOLEAN :
       IF dispOk
       THEN /\ pc' = "splash"
            /\ start' = clock
            /\ sdOk' = FALSE
            /\ scanned' = FALSE
       ELSE /\ pc' = "halt"
            /\ UNCHANGED <<start, sdOk, scanned>>
  /\ UNCHANGED <<model, screen, wake, pin, buttons, history, fillW, status, frames, tried,
                 paths>>

\* one iteration of the splash loop, lines 306-357
SplashStep ==
  /\ pc = "splash"
  /\ clock - start < TOTAL_MS
  /\ frames < FrameCap
  /\ \E begins, scanOpens \in BOOLEAN, extra \in {0, SlowMs} :
       LET ok == IF initDue(sdOk) THEN begins ELSE sdOk
           scan == scanDue(ok, scanned)
           r == loadDirectory(entries, Root, scanOpens)
       IN /\ tried' = initDue(sdOk)
          /\ sdOk' = ok
          /\ IF scan
             THEN /\ currentPath' = Root
                  /\ SetModel(r)
                  /\ loads' = loads \o <<[path |-> Root, ok |-> r.ok]>>
                  /\ scanned' = TRUE
             ELSE UNCHANGED <<model, loads, scanned>>
          /\ status' = statusText(ok, scanned')
          /\ fillW' = fillWidth(clock - start)
          /\ clock' = clock + stepTime(extra)
  /\ screen' = Overlay("splash", <<>>)
  /\ frames' = frames + 1
  /\ UNCHANGED <<pc, wake, pin, level, lastState, lastTime, lowSince, emitted, presses,
                 lastOp, pre, scrolls, runStart, runLen, start, paths>>

\* the verification that skips what the splash loop already did
SplashExit_trusting ==
  /\ pc = "splash"
  /\ ~(clock - start < TOTAL_MS)
  /\ \E sdFinal, rootOpens \in BOOLEAN :
       LET r == loadDirectory(entries, Root, rootOpens)
       IN IF sdOk /\ scanned /\ loads[Len(loads)].ok
          THEN /\ tried' = FALSE
               /\ UNCHANGED <<model, loads>>
               /\ screen' = ListScreen(currentPath, entries, entryCount, selectionIndex,
                                       scrollOffset)
               /\ pc' = "loop"
          ELSE /\ tried' = TRUE
               /\ IF ~sdFinal
                  THEN /\ UNCHANGED <<model, loads>>
                       /\ screen' = Overlay("sdInitFailed", <<>>)
                       /\ pc' = "halt"
                  ELSE /\ currentPath' = Root
                       /\ SetModel(r)
                       /\ loads' = loads \o <<[path |-> Root, ok |-> r.ok]>>
                       /\ IF r.ok
                          THEN /\ screen' = ListScreen(Root, r.entries, r.entryCount,
                                                       r.selectionIndex, r.scrollOffset)
                               /\ pc' = "loop"
                          ELSE /\ screen' = Overlay("rootOpenFailed", <<>>)
                               /\ pc' = "halt"
  /\ lastOp' = "setup"
  /\ UNCHANGED <<wake, pin, buttons, pre, scrolls, runStart, runLen, start, sdOk, scanned,
                 fillW, status, frames, paths>>

\* the loop test fails; lines 359-382, then drawUI() of setup()
SplashExit ==
  /\ pc = "splash"
  /\ ~(clock - start < TOTAL_MS)
  /\ \E sdFinal, rootOpens \in BOOLEAN :
       LET r == loadDirectory(entries, Root, rootOpens)
       IN /\ tried' = TRUE
          /\ IF ~sdFinal
             THEN /\ UNCHANGED <<model, loads>>
                  /\ screen' = Overlay("sdInitFailed", <<>>)
                  /\ pc' = "halt"
             ELSE /\ currentPath' = Root
                  /\ SetModel(r)
                  /\ loads' = loads \o <<[path |-> Root, ok |-> r.ok]>>
                  /\ IF r.ok
                     THEN /\ screen' = ListScreen(Root, r.entries, r.entryCount,
                                                  r.selectionIndex, r.scrollOffset)
                          /\ pc' = "loop"
                     ELSE /\ screen' = Overlay("rootOpenFailed", <<>>)
                          /\ pc' = "halt"
  /\ lastOp' = "setup"
  /\ UNCHANGED <<wake, pin, buttons, pre, scrolls, runStart, runLen, start, sdOk, scanned,
                 fillW, status, frames, paths>>

NextSplash == SplashBegin \/ SplashStep \/ SplashExit

SpecSplash == Init /\ [][NextSplash]_vars

\* setup() is the only code running: its next step is eventually taken
SpecSplashFair == SpecSplash /\ WF_vars(NextSplash)

\* ------------------------------------------------------------------- paths
\* pathJoin and goParent on their own.
PathNames == {<<"a">>, <<"b", ".", "c">>, nL}

RECURSIVE Flat(_)
Flat(segs) ==
  IF segs = <<>> THEN <<>>
  ELSE Flat(SubSeq(segs, 1, Len(segs) - 1)) \o <<"/">> \o segs[Len(segs)]

\* the path of the directory reached from the root through segs
Build(segs) == IF segs = <<>> THEN Root ELSE Flat(segs)

RECURSIVE SegsUpTo(_)
SegsUpTo(d) ==
  IF d = 0 THEN {<<>>}
  ELSE SegsUpTo(d - 1) \cup {Append(q, n) : q \in SegsUpTo(d - 1), n \in PathNames}

\* what currentPath can hold: a rooted path that fits the field
PathInputs == {q \in SegsUpTo(MaxDepth) : Len(Build(q)) <= PATH_SIZE - 1}

InitPath ==
  /\ Boot
  /\ pathSegs \in PathInputs
  /\ nameIn \in PathNames
  /\ pathOut = Build(pathSegs)
  /\ pathOp = "none"

\* onEnter, line 238: pathJoin(currentPath, name, newPath, sizeof(newPath))
ApplyJoin ==
  /\ pathOp = "none"
  /\ pathOut' = pathJoin(pathOut, nameIn)
  /\ pathOp' = "join"
  /\ UNCHANGED <<model, screen, pc, wake, pin, buttons, history, splash, pathSegs, nameIn>>

\* onBack, line 277: goParent(parent), on a path or on a joined path
ApplyParent ==
  /\ pathOp \in {"none", "join"}
  /\ pathOut' = goParent(pathOut)
  /\ pathOp' = IF pathOp = "none" THEN "parent" ELSE "joinParent"
  /\ UNCHANGED <<model, screen, pc, wake, pin, buttons, history, splash, pathSegs, nameIn>>

NextPath == ApplyJoin \/ ApplyParent

SpecPath == InitPath /\ [][NextPath]_vars

\* =================================================================== claims
InBrowserLoop == pc \in {"loop", "dwell"}

EnterOps == {"enterEmpty", "enterOk", "enterFail", "enterFile"}
BackOps == {"backRoot", "backOk", "backFallback"}

Max(a, b) == IF a > b THEN a ELSE b

\* C1: once the "open failed" overlay of a failed Enter on a directory entry
\* is dismissed, currentPath, entryCount, the entries, selectionIndex and
\* scrollOffset equal their values immediately before the Enter press.
C1_FailedEnterKeepsModel ==
  (pc = "loop" /\ lastOp = "enterFail") => Snapshot = pre

\* C2: in the browser loop, with entries the selection lies inside the
\* visible window, 0 <= scrollOffset <= selectionIndex <= scrollOffset +
\* VISIBLE - 1; without entries selectionIndex = 0 and scrollOffset = 0.
C2_SelectionInWindow ==
  InBrowserLoop =>
    IF entryCount > 0
    THEN /\ 0 <= scrollOffset
         /\ scrollOffset <= selectionIndex
         /\ selectionIndex <= scrollOffset + VISIBLE_ITEMS - 1
    ELSE selectionIndex = 0 /\ scrollOffset = 0

C2_Witness ==
  /\ pc = "loop"
  /\ lastOp = "scroll"
  /\ scrollOffset > 0
  /\ selectionIndex = scrollOffset + VISIBLE_ITEMS - 1

\* C3: in every reachable state scrollOffset is in 0..max(0, entryCount -
\* VISIBLE): 0 when entryCount <= VISIBLE, else scrollOffset + VISIBLE <=
\* entryCount, so no visible row has an index >= entryCount.
C3_ScrollOffsetInRange ==
  /\ 0 <= scrollOffset
  /\ scrollOffset <= Max(0, entryCount - VISIBLE_ITEMS)
  /\ entryCount <= VISIBLE_ITEMS => scrollOffset = 0
  /\ entryCount > VISIBLE_ITEMS => scrollOffset + VISIBLE_ITEMS <= entryCount
  /\ entryCount >= VISIBLE_ITEMS =>
       \A row \in 0..(VISIBLE_ITEMS - 1) : scrollOffset + row < entryCount

C3_Witness ==
  /\ entryCount > VISIBLE_ITEMS
  /\ scrollOffset > 0
  /\ scrollOffset = entryCount - VISIBLE_ITEMS

\* C4: the "open failed" overlay of a failed Enter shows the name of the
\* entry that was selected when Enter was pressed.
C4_OverlayNamesSelectedEntry ==
  (pc = "dwell" /\ lastOp = "enterFail") =>
    /\ screen.kind = "openFailed"
    /\ screen.text = pre.entries[pre.selectionIndex].name

\* C5: after a failed Enter on a directory entry, an Enter press with no
\* other press in between attempts the load of the same path again.
C5_RetryLoadsSamePath ==
  [][(pc = "loop" /\ lastOp = "enterFail" /\ lastOp' \in EnterOps)
       => (Len(loads') = 1 /\ loads'[1].path = loads[1].path)]_vars

\* C8: a Scroll sets selectionIndex to (selectionIndex + 1) mod entryCount
\* when entryCount > 0 and changes nothing when entryCount = 0; entryCount
\* consecutive Scroll actions return selectionIndex to where the run began.
C8_ScrollIsCyclic ==
  /\ []((entryCount > 0 /\ runLen = entryCount) => selectionIndex = runStart)
  /\ [][(pc = "loop" /\ lastOp' = "scroll") =>
          IF entryCount > 0
          THEN /\ selectionIndex' = (selectionIndex + 1) % entryCount
               /\ UNCHANGED <<currentPath, entries, entryCount>>
          ELSE UNCHANGED <<model, screen>>]_vars

C8_Witness ==
  /\ entryCount > VISIBLE_ITEMS
  /\ runStart > 0
  /\ runLen = entryCount
  /\ selectionIndex = runStart

\* C9: k Scroll actions after a load of n > 0 entries leave selectionIndex =
\* k mod n and scrollOffset = max(0, (k mod n) - (VISIBLE - 1)).
C9_ScrollPosition ==
  (InBrowserLoop /\ entryCount > 0) =>
    /\ selectionIndex = scrolls % entryCount
    /\ scrollOffset = Max(0, (scrolls % entryCount) - (VISIBLE_ITEMS - 1))

C9_Witness ==
  /\ entryCount = 7
  /\ scrolls = 13
  /\ selectionIndex = 6
  /\ scrollOffset = 2

\* C10: Back away from the root first attempts load(parent(currentPath)); on
\* success currentPath is that parent, on failure currentPath is "/" and the
\* root is loaded whatever the result; either way selectionIndex = 0,
\* scrollOffset = 0 and currentPath is no longer the child path.
C10_BackLeavesChild ==
  [][(pc = "loop" /\ lastOp' \in BackOps /\ currentPath # Root) =>
       /\ Len(loads') >= 1
       /\ loads'[1].path = goParent(currentPath)
       /\ IF loads'[1].ok
          THEN /\ Len(loads') = 1
               /\ currentPath' = goParent(currentPath)
               /\ lastOp' = "backOk"
          ELSE /\ Len(loads') = 2
               /\ loads'[2].path = Root
               /\ currentPath' = Root
               /\ lastOp' = "backFallback"
       /\ selectionIndex' = 0
       /\ scrollOffset' = 0
       /\ currentPath' # currentPath]_vars

C10_Witness ==
  /\ lastOp = "backFallback"
  /\ Len(pre.currentPath) > 2
  /\ Len(loads) = 2
  /\ ~loads[2].ok
  /\ currentPath = Root

\* C6: a button reports at most one press per press-release cycle of its
\* pin; the poll that reports it returns only once the pin has been sampled
\* released; while the button is held (release-wait) the hold has produced
\* no action yet, and the release-wait is left only by reporting the one
\* press, so a hold of any length yields one action, at its release.
C6_OnePressPerCycle ==
  /\ [](\A b \in Buttons : emitted[b] <= 1)
  /\ [](pc = "wait" => emitted[pin] = 0)
  /\ [][/\ \A b \in Buttons :
             emitted'[b] > emitted[b] => (level[b] = HIGH /\ lastState'[b] = HIGH)
        /\ (pc = "wait" /\ pc' # "wait") => emitted'[pin] = 1]_vars

C6_Witness ==
  /\ emitted[BTN_SCROLL] = 1
  /\ level[BTN_SCROLL] = HIGH
  /\ lastOp = "scroll"
  /\ scrolls = 1
  /\ presses = 1
  /\ clock >= TOTAL_MS + 3 * TickMs

\* C7: a poll decides to report a press only when the pin has been LOW
\* without interruption for at least DEBOUNCE_MS up to that poll, and a poll
\* that samples a changed level records level and time and does not report.
C7_ReportOnlySteadyPress ==
  [][/\ (pc = "loop" /\ pc' = "wait") =>
          (level[pin] = LOW /\ clock - lowSince[pin] >= DEBOUNCE_MS)
     /\ (pc = "loop" /\ (pin' # pin \/ pc' = "wait") /\ level[pin] # lastState[pin]) =>
          (lastState'[pin] = level[pin] /\ lastTime'[pin] = clock /\ pc' = "loop")]_vars

\* C11: Back pressed while currentPath is "/" does nothing: the step attempts
\* no load and leaves currentPath, entryCount, the entry table,
\* selectionIndex, scrollOffset and the screen as they were.
C11_BackAtRootIsNoOp ==
  [][(pc = "loop" /\ lastOp' \in BackOps /\ currentPath = Root) =>
       (lastOp' = "backRoot" /\ loads' = <<>> /\ UNCHANGED <<model, screen>>)]_vars

\* Back has just returned at the root, with a scrolled, non-empty list
C11_Witness ==
  /\ pc = "loop"
  /\ lastOp = "backRoot"
  /\ currentPath = Root
  /\ entryCount > 0
  /\ selectionIndex > 0
  /\ loads = <<>>

\* C12: Enter on an entry that is not a directory shows the "selected file"
\* overlay naming that entry and opens nothing: no load is attempted and
\* currentPath, entryCount, the entry table, selectionIndex and scrollOffset
\* keep their values; when the overlay ends the same list is redrawn.
C12_EnterOnFileKeepsModel ==
  [][/\ (pc = "loop" /\ lastOp' \in EnterOps /\ entryCount > 0
           /\ ~entries[selectionIndex].isDir) =>
          /\ lastOp' = "enterFile"
          /\ loads' = <<>>
          /\ UNCHANGED model
          /\ screen' = Overlay("selectedFile", entries[selectionIndex].name)
          /\ pc' = "dwell"
     /\ (pc = "dwell" /\ lastOp = "enterFile") =>
          /\ UNCHANGED model
          /\ Snapshot = pre
          /\ pc' = "loop"
          /\ screen' = ListScreen(currentPath, entries, entryCount, selectionIndex,
                                  scrollOffset)]_vars

\* the list is back after Enter on the second root entry, the file b.txt
C12_Witness ==
  /\ pc = "loop"
  /\ lastOp = "enterFile"
  /\ currentPath = Root
  /\ selectionIndex = 1
  /\ entries[selectionIndex] = FileEnt(nB)
  /\ screen.kind = "list"
  /\ screen.selected = 1

\* the first count slots of ents are the first count children of path, in
\* enumeration order, with names cut to the name field
Listed(path, ents, count) ==
  /\ path \in DOMAIN Card
  /\ count = Min(Len(Card[path]), MAX_ENTRIES)
  /\ \A i \in 0..(count - 1) :
       ents[i] = [name |-> Trunc(Card[path][i + 1].name, NAME_SIZE - 1),
                  isDir |-> Card[path][i + 1].isDir]

\* C15: entryCount is always within 0..MAX_ENTRIES; after a load that
\* succeeded the table holds the directory's children in enumeration order,
\* all of them or, for a directory of more than MAX_ENTRIES children, the
\* first MAX_ENTRIES, and that load reported success.
C15_LoadCapsAtMaxEntries ==
  /\ entryCount \in 0..MAX_ENTRIES
  /\ (loads # <<>> /\ loads[Len(loads)].ok) =>
       /\ Listed(loads[Len(loads)].path, entries, entryCount)
       /\ Len(Card[loads[Len(loads)].path]) > MAX_ENTRIES => entryCount = MAX_ENTRIES

\* the directory of MAX_ENTRIES + ExtraChildren files has just been loaded
C15_Witness ==
  /\ pc = "loop"
  /\ lastOp = "enterOk"
  /\ loads = <<[path |-> pC, ok |-> TRUE]>>
  /\ Len(Card[pC]) > MAX_ENTRIES
  /\ entryCount = MAX_ENTRIES
  /\ entries[0].name = <<"f">> \o Num(0)
  /\ entries[MAX_ENTRIES - 1].name = <<"f">> \o Num(MAX_ENTRIES - 1)

\* C18: Enter on a directory entry whose load succeeds sets currentPath to
\* the join of the old path and the entry's name, replaces the table by that
\* directory's children and resets selectionIndex and scrollOffset to 0; no
\* other step changes currentPath except a Back taken away from the root
\* (and the startup).
C18_EnterCommitsPath ==
  [][/\ (pc = "loop" /\ lastOp' \in EnterOps /\ entryCount > 0
           /\ entries[selectionIndex].isDir /\ loads' # <<>> /\ loads'[1].ok) =>
          /\ lastOp' = "enterOk"
          /\ currentPath' = pathJoin(currentPath, entries[selectionIndex].name)
          /\ Listed(currentPath', entries', entryCount')
          /\ selectionIndex' = 0
          /\ scrollOffset' = 0
     /\ (pc = "loop" /\ lastOp' = "enterOk") =>
          (entryCount > 0 /\ entries[selectionIndex].isDir /\ loads'[1].ok)
     /\ currentPath' # currentPath =>
          \/ pc = "setup"
          \/ pc = "loop" /\ lastOp' = "enterOk"
          \/ pc = "loop" /\ lastOp' \in {"backOk", "backFallback"} /\ currentPath # Root]_vars

\* Enter on the third root entry, scrolled to, has opened /C
C18_Witness ==
  /\ pc = "loop"
  /\ lastOp = "enterOk"
  /\ pre.currentPath = Root
  /\ pre.selectionIndex = 2
  /\ currentPath = pC
  /\ entryCount = MAX_ENTRIES
  /\ selectionIndex = 0
  /\ scrollOffset = 0

\* C13: when the splash loop ends, SD.begin is called again whatever the
\* loop achieved and, if it succeeds, the root is loaded again; setup()
\* goes on to the first list and loop() only if both succeed, otherwise it
\* stops at an error screen, and no step leaves that state.
C13_FinalVerification ==
  [][/\ (pc = "splash" /\ pc' # "splash") =>
          /\ tried'
          /\ pc' \in {"loop", "halt"}
          /\ screen'.kind # "sdInitFailed" =>
               /\ Len(loads') = Len(loads) + 1
               /\ loads'[Len(loads')].path = Root
          /\ pc' = "loop" <=>
               (screen'.kind # "sdInitFailed" /\ loads'[Len(loads')].ok)
          /\ pc' = "loop" =>
               screen' = ListScreen(Root, entries', entryCount', selectionIndex',
                                    scrollOffset')
          /\ pc' = "halt" => screen'.kind \in {"sdInitFailed", "rootOpenFailed"}
     /\ pc # "halt"]_vars

\* the splash loop initialised the card and scanned the root, and the
\* verification's SD.begin then failed
C13_Witness ==
  /\ pc = "halt"
  /\ sdOk
  /\ scanned
  /\ loads = <<[path |-> Root, ok |-> TRUE]>>
  /\ tried
  /\ screen.kind = "sdInitFailed"

\* C14: an iteration of the splash loop calls SD.begin exactly when no
\* earlier iteration's call succeeded; the loop scans the root in the
\* iteration whose call succeeds and in no other, so once if initialisation
\* succeeds within the budget and never otherwise, whatever the scan
\* returned.
C14_InitAndScanOnce ==
  [][(pc = "splash" /\ pc' = "splash") =>
       /\ tried' = ~sdOk
       /\ sdOk => sdOk'
       /\ Len(loads') = Len(loads) + (IF sdOk' /\ ~sdOk THEN 1 ELSE 0)
       /\ Len(loads') = (IF sdOk' THEN 1 ELSE 0)
       /\ \A k \in 1..Len(loads') : loads'[k].path = Root]_vars

\* initialisation succeeded late, the scan failed, and iterations followed
C14_Witness ==
  /\ pc = "splash"
  /\ sdOk
  /\ ~tried
  /\ frames >= 3
  /\ clock - start > SlowMs
  /\ loads = <<[path |-> Root, ok |-> FALSE]>>

\* C19: the splash loop ends: with every iteration taking at least STEP_MS
\* it renders at most TOTAL_MS / STEP_MS frames, renders none once
\* TOTAL_MS has elapsed and is left then, whether SD.begin succeeds early,
\* late or never; the fill width never decreases and stays within
\* 0 .. barW - 2.
C19_SplashTerminates ==
  /\ [](/\ frames <= TOTAL_MS \div STEP_MS
        /\ fillW \in 0..(barW - 2)
        /\ pc = "splash" => clock - start >= frames * STEP_MS)
  /\ [][/\ (pc = "splash" /\ pc' = "splash") =>
             (clock - start < TOTAL_MS /\ frames' = frames + 1 /\ fillW' >= fillW)
        /\ (pc = "splash" /\ pc' # "splash") => clock - start >= TOTAL_MS]_vars
  /\ <>(pc \in {"loop", "halt"})

\* the loop was left after TOTAL_MS / STEP_MS frames, SD.begin never having
\* succeeded
C19_Witness ==
  /\ pc = "halt"
  /\ frames = TOTAL_MS \div STEP_MS
  /\ ~sdOk
  /\ fillW = fillWidth(TOTAL_MS - STEP_MS)
  /\ fillW > 0

\* C20: in every frame of the splash, scanned equals sdOk and the status
\* text is "Loading SD..." while the card is not initialised and "Ready"
\* from the frame in which it is, the root scan having failed or not;
\* "Scanning..." is never shown.
C20_StatusFollowsInit ==
  frames > 0 =>
    /\ scanned = sdOk
    /\ status = (IF sdOk THEN "Ready" ELSE "Loading SD...")
    /\ status # "Scanning..."

\* a frame says "Ready" although the root scan of that iteration failed
C20_Witness ==
  /\ pc = "splash"
  /\ frames > 0
  /\ status = "Ready"
  /\ loads = <<[path |-> Root, ok |-> FALSE]>>
  /\ entryCount = 0

\* the joined path fits the path field
Fits ==
  Len(Build(pathSegs)) + (IF pathSegs = <<>> THEN 0 ELSE 1) + Len(nameIn) <= PATH_SIZE - 1

\* C16: for a rooted path p without trailing slash and a child name without
\* slash, when the joined path fits the field, join(p, name) is p extended
\* by the segment name and parent(join(p, name)) = p.
C16_ParentOfJoin ==
  /\ (pathOp = "join" /\ Fits) => pathOut = Build(Append(pathSegs, nameIn))
  /\ (pathOp = "joinParent" /\ Fits) => pathOut = Build(pathSegs)

\* join then parent on a two-segment path and a name of NAME_SIZE - 1 characters
C16_Witness ==
  /\ pathOp = "joinParent"
  /\ Fits
  /\ pathSegs = <<nL, <<"a">>>>
  /\ nameIn = nL
  /\ pathOut = Build(pathSegs)

\* C17: parent removes exactly the last segment: parent of the root is the
\* root, parent of a one-segment path is the root, parent of a path of
\* k >= 2 segments is the path of its first k - 1 segments; the result is
\* never empty and begins with "/".
C17_ParentDropsLastSegment ==
  pathOp = "parent" =>
    /\ pathOut = Build(SubSeq(pathSegs, 1, Len(pathSegs) - 1))
    /\ Len(pathOut) >= 1
    /\ pathOut[1] = "/"
    /\ Len(pathSegs) <= 1 => pathOut = Root

\* parent of a three-segment path
C17_Witness ==
  /\ pathOp = "parent"
  /\ Len(pathSegs) = 3
  /\ pathOut = Build(<<pathSegs[1], pathSegs[2]>>)
  /\ pathOut # Root

====
